---------------------------- MODULE Spec2Model ----------------------------
(***************************************************************************)
(* Model of the PDF text-extraction pipeline of app/services/pdf_extractor *)
(* (decode -> open -> authenticate -> native / OCR extraction -> validity  *)
(* judgement -> close).  Texts, messages and encoded inputs are sequences  *)
(* of Unicode code points; bytes are sequences of 0..255.                  *)
(***************************************************************************)
EXTENDS Integers, Sequences, FiniteSets, TLC

(***************************************************************************)
(* Bounds of the exploration.                                              *)
(***************************************************************************)
MaxPages == 2
MaxPasswords == 2
MaxB64Len == 4
MaxTextLen == 4
MaxConcPages == 1

(***************************************************************************)
(* Sequence helpers (str / list primitives of the Python runtime).         *)
(***************************************************************************)
SeqsUpTo(S, n) == UNION {[1..k -> S] : k \in 0..n}

RECURSIVE Filter(_, _)
\* characters of s that are not in the set drop, order kept
Filter(s, drop) ==
    IF s = <<>> THEN <<>>
    ELSE IF Head(s) \in drop THEN Filter(Tail(s), drop)
         ELSE <<Head(s)>> \o Filter(Tail(s), drop)

\* s contains sub as a contiguous substring ("sub in s")
Contains(s, sub) ==
    \E i \in 1..(Len(s) - Len(sub) + 1) :
        \A k \in 1..Len(sub) : s[i + k - 1] = sub[k]

RECURSIVE JoinTrailingSep(_, _)
\* a separator written after every part, the last one included
JoinTrailingSep(parts, sep) ==
    IF parts = <<>> THEN <<>>
    ELSE parts[1] \o sep \o JoinTrailingSep(Tail(parts), sep)

RECURSIVE Join(_, _)
\* sep.join(parts)
Join(parts, sep) ==
    IF parts = <<>> THEN <<>>
    ELSE IF Len(parts) = 1 THEN parts[1]
         ELSE parts[1] \o sep \o Join(Tail(parts), sep)

RECURSIVE ToDecimal(_)
\* str(n) for n >= 0
ToDecimal(n) ==
    IF n < 10 THEN <<48 + n>> ELSE ToDecimal(n \div 10) \o <<48 + (n % 10)>>

NEWLINE == <<10>>

(***************************************************************************)
(* Text-validity judge: is_valid_text.                                     *)
(***************************************************************************)
\* str.isspace() / regex \s on a str pattern: Unicode whitespace
IsSpace(c) ==
    \/ c \in 9..13
    \/ c \in 28..32
    \/ c \in {133, 160, 5760, 8232, 8233, 8239, 8287, 12288}
    \/ c \in 8192..8202

RECURSIVE LStrip(_)
LStrip(s) == IF s # <<>> /\ IsSpace(Head(s)) THEN LStrip(Tail(s)) ELSE s

RECURSIVE RStrip(_)
RStrip(s) ==
    IF s # <<>> /\ IsSpace(s[Len(s)]) THEN RStrip(SubSeq(s, 1, Len(s) - 1)) ELSE s

\* text.strip()
Strip(s) == RStrip(LStrip(s))

\* the four characters removed by the chain of replace() calls
ReplacedChars == {32, 10, 13, 9}

\* the full-width punctuation listed literally in the character class
FullWidthPunct ==
    {65288, 65289, 12289, 12290, 65292, 65307, 65306, 65281, 65311,
     12300, 12301, 12302, 12303, 12304, 12305}

\* readable_pattern: one character of the class
MatchesReadable(c) ==
    \/ c \in 19968..40959          \* 一-鿿
    \/ c \in 12288..12351          \* 　-〿
    \/ c \in 97..122               \* a-z
    \/ c \in 65..90                \* A-Z
    \/ c \in 48..57                \* 0-9
    \/ c \in {46, 44, 59, 58, 33, 63, 40, 41, 45}   \* . , ; : ! ? ( ) -
    \/ c \in FullWidthPunct
    \/ IsSpace(c)                  \* \s

\* len(readable_pattern.findall(cleaned))
CountReadable(s) == Cardinality({i \in 1..Len(s) : MatchesReadable(s[i])})

DefaultThreshold == <<3, 10>>

\* is_valid_text(text, threshold); threshold is the rational num/den
is_valid_text(text, threshold) ==
    IF text = <<>> \/ Len(Strip(text)) = 0 THEN FALSE
    ELSE LET cleaned == Filter(text, ReplacedChars)
         IN IF Len(cleaned) = 0 THEN TRUE
            ELSE CountReadable(cleaned) * threshold[2] >= threshold[1] * Len(cleaned)

(***************************************************************************)
(* Decoder: base64.b64decode(s) with the default validate=False, and       *)
(* decode_base64_pdf around it.                                            *)
(***************************************************************************)
BASE64_PAD == 61

\* table_a2b_base64: value of an alphabet character, 64 for any other
B64Value(c) ==
    IF c \in 65..90 THEN c - 65
    ELSE IF c \in 97..122 THEN c - 97 + 26
    ELSE IF c \in 48..57 THEN c - 48 + 52
    ELSE IF c = 43 THEN 62
    ELSE IF c = 47 THEN 63
    ELSE 64

MsgIncorrectPadding ==
    <<73, 110, 99, 111, 114, 114, 101, 99, 116, 32, 112, 97, 100, 100, 105,
      110, 103>>
MsgOnlyAscii ==
    <<115, 116, 114, 105, 110, 103, 32, 97, 114, 103, 117, 109, 101, 110,
      116, 32, 115, 104, 111, 117, 108, 100, 32, 99, 111, 110, 116, 97, 105,
      110, 32, 111, 110, 108, 121, 32, 65, 83, 67, 73, 73, 32, 99, 104, 97,
      114, 97, 99, 116, 101, 114, 115>>
MsgDataCharsPrefix ==
    <<73, 110, 118, 97, 108, 105, 100, 32, 98, 97, 115, 101, 54, 52, 45, 101,
      110, 99, 111, 100, 101, 100, 32, 115, 116, 114, 105, 110, 103, 58, 32,
      110, 117, 109, 98, 101, 114, 32, 111, 102, 32, 100, 97, 116, 97, 32, 99,
      104, 97, 114, 97, 99, 116, 101, 114, 115, 32, 40>>
MsgDataCharsSuffix ==
    <<41, 32, 99, 97, 110, 110, 111, 116, 32, 98, 101, 32, 49, 32, 109, 111,
      114, 101, 32, 116, 104, 97, 110, 32, 97, 32, 109, 117, 108, 116, 105,
      112, 108, 101, 32, 111, 102, 32, 52>>

Raised(msg) == [ok |-> FALSE, value |-> msg]
Returned(v) == [ok |-> TRUE, value |-> v]

RECURSIVE A2B(_, _, _, _, _, _)
\* the non-strict scan of binascii.a2b_base64 from position i
A2B(s, i, quad_pos, leftchar, pads, out) ==
    IF i > Len(s) THEN
        IF quad_pos = 0 THEN Returned(out)
        ELSE IF quad_pos = 1 THEN
            Raised(MsgDataCharsPrefix \o ToDecimal((Len(out) \div 3) * 4 + 1)
                   \o MsgDataCharsSuffix)
        ELSE Raised(MsgIncorrectPadding)
    ELSE IF s[i] = BASE64_PAD THEN
        IF quad_pos >= 2 /\ quad_pos + pads + 1 >= 4 THEN Returned(out)
        ELSE A2B(s, i + 1, quad_pos, leftchar,
                 IF quad_pos >= 2 THEN pads + 1 ELSE pads, out)
    ELSE LET this_ch == B64Value(s[i]) IN
        IF this_ch >= 64 THEN A2B(s, i + 1, quad_pos, leftchar, pads, out)
        ELSE IF quad_pos = 0 THEN A2B(s, i + 1, 1, this_ch, 0, out)
        ELSE IF quad_pos = 1 THEN
            A2B(s, i + 1, 2, this_ch % 16, 0,
                Append(out, (leftchar * 4 + this_ch \div 16) % 256))
        ELSE IF quad_pos = 2 THEN
            A2B(s, i + 1, 3, this_ch % 4, 0,
                Append(out, (leftchar * 16 + this_ch \div 4) % 256))
        ELSE A2B(s, i + 1, 0, 0, 0,
                 Append(out, (leftchar * 64 + this_ch) % 256))

\* base64.b64decode(s): the str is first encoded as ASCII, then scanned
b64decode(s) ==
    IF \E i \in 1..Len(s) : s[i] > 127 THEN Raised(MsgOnlyAscii)
    ELSE A2B(s, 1, 0, 0, 0, <<>>)

MsgBase64Failed ==       \* "Base64 解碼失敗: "
    <<66, 97, 115, 101, 54, 52, 32, 35299, 30908, 22833, 25943, 58, 32>>

\* decode_base64_pdf: the bytes, or PDFExtractionError carrying the reason
decode_base64_pdf(pdf_base64) ==
    LET r == b64decode(pdf_base64)
    IN IF r.ok THEN r ELSE Raised(MsgBase64Failed \o r.value)

(***************************************************************************)
(* State of one extraction call and of its collaborators.                  *)
(***************************************************************************)
VARIABLES
    pc,             \* position of the call in the code
    pdf_base64,     \* argument of extract_text_from_base64_pdf
    pdf_bytes,      \* argument of extract_text_from_pdf
    passwords,      \* argument: [is_none, list]
    force_ocr,      \* argument
    ocr_env,        \* installation state of the OCR collaborator
    doc,            \* the fitz document handle
    authenticated,  \* local of extract_text_from_pdf
    pwd_idx,        \* position of the for loop over passwords
    page_num,       \* loop variable of the page loops
    text_parts,     \* local of extract_text_native / extract_text_ocr
    native_text,    \* local of extract_text_from_pdf
    ocr_text,       \* local of extract_text_from_pdf
    result,         \* what the call returned or raised
    calls,          \* collaborator and judge calls made so far, in order
    text,           \* argument of a direct is_valid_text call
    threshold,      \* argument of a direct is_valid_text call
    verdict,        \* result of a direct is_valid_text call
    response,       \* what the /pdf/toText handler answered
    other,          \* the locals of a second call, suspended meanwhile
    running         \* which of the two calls is the one running

vars == <<pc, pdf_base64, pdf_bytes, passwords, force_ocr, ocr_env, doc,
          authenticated, pwd_idx, page_num, text_parts, native_text,
          ocr_text, result, calls, text, threshold, verdict, response,
          other, running>>

judgeVars == <<text, threshold, verdict>>

\* what no step of extract_text_from_pdf touches
outerVars == <<judgeVars, response, other, running>>

(***************************************************************************)
(* Inputs and collaborator answers the exploration draws from.             *)
(***************************************************************************)
TruePassword == "abc123"
PasswordPool == {"abc123", "x"}
PasswordArgs ==
    {[is_none |-> TRUE, list |-> <<>>]}
    \cup {[is_none |-> FALSE, list |-> l] : l \in SeqsUpTo(PasswordPool, MaxPasswords)}

\* "a" (readable), "§" (outside the readable class), "" (blank page)
PageTexts == {<<97>>, <<167>>, <<>>}
OcrTexts == PageTexts

\* "Q", "=", "!" (ASCII outside the alphabet), "é" (not ASCII)
B64Chars == {81, 61, 33, 233}
B64Inputs == SeqsUpTo(B64Chars, MaxB64Len)

SamplePdfBytes == <<37, 80, 68, 70>>        \* "%PDF"

MsgBroken ==             \* "cannot open broken document"
    <<99, 97, 110, 110, 111, 116, 32, 111, 112, 101, 110, 32, 98, 114, 111,
      107, 101, 110, 32, 100, 111, 99, 117, 109, 101, 110, 116>>
MsgTesseract ==          \* "tesseract is not installed"
    <<116, 101, 115, 115, 101, 114, 97, 99, 116, 32, 105, 115, 32, 110, 111,
      116, 32, 105, 110, 115, 116, 97, 108, 108, 101, 100>>
FitzErrors == {MsgBroken}
TesseractErrors == {MsgTesseract}

\* pytesseract / PIL importable and working, not importable, or importable
\* but unable to run the engine
OcrEnvs == {"ok", "missing", "misconfigured"}

\* per-page outcomes of the body of the OCR loop
OcrOutcomes(env) ==
    {"raster_error", "image_error", "recognize_error"}
    \cup (IF env = "ok" THEN {"recognized"} ELSE {})

(***************************************************************************)
(* Messages and results.                                                   *)
(***************************************************************************)
MsgCannotOpen ==         \* "無法開啟 PDF 文件: "
    <<28961, 27861, 38283, 21855, 32, 80, 68, 70, 32, 25991, 20214, 58, 32>>
MsgAuthFailed ==         \* "PDF 密碼驗證失敗：提供的密碼均不正確"
    <<80, 68, 70, 32, 23494, 30908, 39511, 35657, 22833, 25943, 65306, 25552,
      20379, 30340, 23494, 30908, 22343, 19981, 27491, 30906>>
MsgOcrMissing ==         \* "OCR 功能需要安裝 pytesseract 和 pillow。請執行: pip install ..."
    <<79, 67, 82, 32, 21151, 33021, 38656, 35201, 23433, 35037, 32, 112, 121,
      116, 101, 115, 115, 101, 114, 97, 99, 116, 32, 21644, 32, 112, 105, 108,
      108, 111, 119, 12290, 35531, 22519, 34892, 58, 32, 112, 105, 112, 32,
      105, 110, 115, 116, 97, 108, 108, 32, 112, 121, 116, 101, 115, 115, 101,
      114, 97, 99, 116, 32, 112, 105, 108, 108, 111, 119>>
PlaceholderPrefix ==     \* "[OCR 失敗: "
    <<91, 79, 67, 82, 32, 22833, 25943, 58, 32>>
PlaceholderSuffix == <<93>>                 \* "]"

\* f"[OCR 失敗: {str(e)}]"
Placeholder(e) == PlaceholderPrefix \o e \o PlaceholderSuffix

NoResult == [kind |-> "none", cls |-> "", value |-> <<>>]
Text(t) == [kind |-> "text", cls |-> "str", value |-> t]
Error(cls, msg) == [kind |-> "error", cls |-> cls, value |-> msg]

NoDoc == [opened |-> FALSE, needs_pass |-> FALSE, page_count |-> 0,
          is_closed |-> FALSE]

Call(op, arg) == [op |-> op, arg |-> arg]

\* doc.authenticate(pwd)
DocAuthenticate(pwd) == pwd = TruePassword

(***************************************************************************)
(* Initial states: a call of extract_text_from_pdf (Init), a call of       *)
(* extract_text_from_base64_pdf (InitB64), a call of is_valid_text         *)
(* (InitJudge).                                                            *)
(***************************************************************************)
IdleLocals ==
    /\ doc = NoDoc
    /\ authenticated = FALSE
    /\ pwd_idx = 0
    /\ page_num = 0
    /\ text_parts = <<>>
    /\ native_text = <<>>
    /\ ocr_text = <<>>
    /\ result = NoResult
    /\ calls = <<>>

IdleJudge ==
    /\ text = <<>>
    /\ threshold = DefaultThreshold
    /\ verdict = FALSE

NoResponse == [status |-> 0, text |-> <<>>, detail |-> <<>>]

\* the locals of a call that was never started
NoCall ==
    [pc |-> "none", pdf_bytes |-> <<>>,
     passwords |-> [is_none |-> TRUE, list |-> <<>>], force_ocr |-> FALSE,
     doc |-> NoDoc, authenticated |-> FALSE, pwd_idx |-> 0, page_num |-> 0,
     text_parts |-> <<>>, native_text |-> <<>>, ocr_text |-> <<>>,
     result |-> NoResult, calls |-> <<>>]

\* no request handler and no second call around
IdleOuter ==
    /\ response = NoResponse
    /\ other = NoCall
    /\ running = "A"

Init ==
    /\ pc = "open"
    /\ pdf_base64 = <<>>
    /\ pdf_bytes = SamplePdfBytes
    /\ passwords \in PasswordArgs
    /\ force_ocr \in BOOLEAN
    /\ ocr_env \in OcrEnvs
    /\ IdleLocals
    /\ IdleJudge
    /\ IdleOuter

(***************************************************************************)
(* extract_text_from_pdf, one action per step of its control flow.         *)
(***************************************************************************)
\* the close written as the last statement of the try body instead of in a
\* finally clause: an exception leaves the document open
ExitTryCloseOnReturnOnly(log, outcome) ==
    /\ calls' = IF outcome.kind = "text" THEN Append(log, Call("close", <<>>))
                ELSE log
    /\ doc' = [doc EXCEPT !.is_closed = (outcome.kind = "text")]
    /\ result' = outcome
    /\ pc' = "done"

\* leaving the try block: the finally clause closes the document, then the
\* pending return value or exception reaches the caller
ExitTry(log, outcome) ==
    /\ calls' = Append(log, Call("close", <<>>))
    /\ doc' = [doc EXCEPT !.is_closed = TRUE]
    /\ result' = outcome
    /\ pc' = "done"

\* the page counts a document may have; smaller while two calls interleave
PageCounts == 0..(IF other.pc = "none" THEN MaxPages ELSE MaxConcPages)

\* the document kept in a module-level variable and reused by a call that
\* finds one there
OpenSharedHandle ==
    /\ pc = "open"
    /\ passwords' = [is_none |-> FALSE, list |-> passwords.list]
    /\ \/ \E e \in FitzErrors :
            /\ calls' = Append(calls, Call("open", pdf_bytes))
            /\ result' = Error("PDFExtractionError", MsgCannotOpen \o e)
            /\ pc' = "done"
            /\ doc' = doc
       \/ \E np \in BOOLEAN, n \in PageCounts :
            /\ calls' = Append(calls, Call("open", pdf_bytes))
            /\ doc' = IF other.doc.opened THEN other.doc
                      ELSE [opened |-> TRUE, needs_pass |-> np,
                            page_count |-> n, is_closed |-> FALSE]
            /\ pc' = "needs_pass"
            /\ result' = result
    /\ UNCHANGED <<pdf_base64, pdf_bytes, force_ocr, ocr_env, authenticated,
                   pwd_idx, page_num, text_parts, native_text, ocr_text>>
    /\ UNCHANGED outerVars

\* passwords defaulting and fitz.open
Open ==
    /\ pc = "open"
    /\ passwords' = [is_none |-> FALSE, list |-> passwords.list]
    /\ \/ \E e \in FitzErrors :
            /\ calls' = Append(calls, Call("open", pdf_bytes))
            /\ result' = Error("PDFExtractionError", MsgCannotOpen \o e)
            /\ pc' = "done"
            /\ doc' = doc
       \/ \E np \in BOOLEAN, n \in PageCounts :
            /\ calls' = Append(calls, Call("open", pdf_bytes))
            /\ doc' = [opened |-> TRUE, needs_pass |-> np, page_count |-> n,
                       is_closed |-> FALSE]
            /\ pc' = "needs_pass"
            /\ result' = result
    /\ UNCHANGED <<pdf_base64, pdf_bytes, force_ocr, ocr_env, authenticated,
                   pwd_idx, page_num, text_parts, native_text, ocr_text>>
    /\ UNCHANGED outerVars

\* the password test left out: a protected document goes to extraction
NeedsPassIgnored ==
    /\ pc = "needs_pass"
    /\ pc' = "force_check"
    /\ UNCHANGED <<authenticated, pwd_idx>>
    /\ UNCHANGED <<pdf_base64, pdf_bytes, passwords, force_ocr, ocr_env, doc,
                   page_num, text_parts, native_text, ocr_text, result, calls>>
    /\ UNCHANGED outerVars

\* the test written as "if doc.needs_pass or passwords": a supplied list is
\* tried on a document that needs no password
NeedsPassOrPasswordsGiven ==
    /\ pc = "needs_pass"
    /\ IF doc.needs_pass \/ passwords.list # <<>>
       THEN /\ authenticated' = FALSE
            /\ pwd_idx' = 1
            /\ pc' = IF passwords.list = <<>> THEN "auth_check" ELSE "auth_loop"
       ELSE /\ pc' = "force_check"
            /\ UNCHANGED <<authenticated, pwd_idx>>
    /\ UNCHANGED <<pdf_base64, pdf_bytes, passwords, force_ocr, ocr_env, doc,
                   page_num, text_parts, native_text, ocr_text, result, calls>>
    /\ UNCHANGED outerVars

\* if doc.needs_pass: authenticated = False; for pwd in passwords
NeedsPass ==
    /\ pc = "needs_pass"
    /\ IF doc.needs_pass
       THEN /\ authenticated' = FALSE
            /\ pwd_idx' = 1
            /\ pc' = IF passwords.list = <<>> THEN "auth_check" ELSE "auth_loop"
       ELSE /\ pc' = "force_check"
            /\ UNCHANGED <<authenticated, pwd_idx>>
    /\ UNCHANGED <<pdf_base64, pdf_bytes, passwords, force_ocr, ocr_env, doc,
                   page_num, text_parts, native_text, ocr_text, result, calls>>
    /\ UNCHANGED outerVars

\* the loop giving up after the first entry
AuthenticateFirstOnly ==
    /\ pc = "auth_loop"
    /\ LET pwd == passwords.list[pwd_idx] IN
        /\ calls' = Append(calls, Call("authenticate", pwd))
        /\ authenticated' = DocAuthenticate(pwd)
        /\ pwd_idx' = pwd_idx
        /\ pc' = "auth_check"
    /\ UNCHANGED <<pdf_base64, pdf_bytes, passwords, force_ocr, ocr_env, doc,
                   page_num, text_parts, native_text, ocr_text, result>>
    /\ UNCHANGED outerVars

\* the password loop without its break: every entry is tried
AuthenticateNoBreak ==
    /\ pc = "auth_loop"
    /\ LET pwd == passwords.list[pwd_idx] IN
        /\ calls' = Append(calls, Call("authenticate", pwd))
        /\ authenticated' = (authenticated \/ DocAuthenticate(pwd))
        /\ pwd_idx' = pwd_idx + 1
        /\ pc' = IF pwd_idx = Len(passwords.list)
                 THEN "auth_check" ELSE "auth_loop"
    /\ UNCHANGED <<pdf_base64, pdf_bytes, passwords, force_ocr, ocr_env, doc,
                   page_num, text_parts, native_text, ocr_text, result>>
    /\ UNCHANGED outerVars

\* one iteration of the password loop
Authenticate ==
    /\ pc = "auth_loop"
    /\ LET pwd == passwords.list[pwd_idx] IN
        /\ calls' = Append(calls, Call("authenticate", pwd))
        /\ IF DocAuthenticate(pwd)
           THEN /\ authenticated' = TRUE
                /\ pc' = "auth_check"
                /\ pwd_idx' = pwd_idx
           ELSE /\ authenticated' = authenticated
                /\ pwd_idx' = pwd_idx + 1
                /\ pc' = IF pwd_idx = Len(passwords.list)
                         THEN "auth_check" ELSE "auth_loop"
    /\ UNCHANGED <<pdf_base64, pdf_bytes, passwords, force_ocr, ocr_env, doc,
                   page_num, text_parts, native_text, ocr_text, result>>
    /\ UNCHANGED outerVars

\* the check written as "if passwords and not authenticated": an empty list
\* lets a protected document through
AuthCheckSkipsEmptyList ==
    /\ pc = "auth_check"
    /\ IF passwords.list # <<>> /\ ~authenticated
       THEN ExitTry(calls, Error("PDFExtractionError", MsgAuthFailed))
       ELSE /\ pc' = "force_check"
            /\ UNCHANGED <<doc, result, calls>>
    /\ UNCHANGED <<pdf_base64, pdf_bytes, passwords, force_ocr, ocr_env,
                   authenticated, pwd_idx, page_num, text_parts, native_text,
                   ocr_text>>
    /\ UNCHANGED outerVars

\* if not authenticated: raise
AuthCheck ==
    /\ pc = "auth_check"
    /\ IF ~authenticated
       THEN ExitTry(calls, Error("PDFExtractionError", MsgAuthFailed))
       ELSE /\ pc' = "force_check"
            /\ UNCHANGED <<doc, result, calls>>
    /\ UNCHANGED <<pdf_base64, pdf_bytes, passwords, force_ocr, ocr_env,
                   authenticated, pwd_idx, page_num, text_parts, native_text,
                   ocr_text>>
    /\ UNCHANGED outerVars

\* if force_ocr: extract_text_ocr(doc), else extract_text_native(doc)
ForceCheck ==
    /\ pc = "force_check"
    /\ IF force_ocr
       THEN /\ calls' = Append(calls, Call("extract_text_ocr", <<>>))
            /\ pc' = "ocr_import"
            /\ UNCHANGED <<page_num, text_parts>>
       ELSE /\ calls' = Append(calls, Call("extract_text_native", <<>>))
            /\ pc' = "native_page"
            /\ page_num' = 0
            /\ text_parts' = <<>>
    /\ UNCHANGED <<pdf_base64, pdf_bytes, passwords, force_ocr, ocr_env, doc,
                   authenticated, pwd_idx, native_text, ocr_text, result>>
    /\ UNCHANGED outerVars

\* one iteration of the loop of extract_text_native; page.get_text() answers
\* with a text or raises
NativePage ==
    /\ pc = "native_page"
    /\ page_num < doc.page_count
    /\ LET log == Append(calls, Call("get_text", page_num)) IN
        \/ \E t \in PageTexts :
            /\ text_parts' = Append(text_parts, t)
            /\ page_num' = page_num + 1
            /\ calls' = log
            /\ UNCHANGED <<pc, doc, result>>
        \/ \E e \in FitzErrors :
            /\ ExitTry(log, Error("RuntimeError", e))
            /\ UNCHANGED <<text_parts, page_num>>
    /\ UNCHANGED <<pdf_base64, pdf_bytes, passwords, force_ocr, ocr_env,
                   authenticated, pwd_idx, native_text, ocr_text>>
    /\ UNCHANGED outerVars

\* return "\n".join(text_parts), assigned to native_text
NativeReturn ==
    /\ pc = "native_page"
    /\ page_num = doc.page_count
    /\ native_text' = Join(text_parts, NEWLINE)
    /\ pc' = "judge_native"
    /\ UNCHANGED <<pdf_base64, pdf_bytes, passwords, force_ocr, ocr_env, doc,
                   authenticated, pwd_idx, page_num, text_parts, ocr_text,
                   result, calls>>
    /\ UNCHANGED outerVars

\* the verdict on the native text ignored: OCR is always tried
JudgeNativeAlwaysOcr ==
    /\ pc = "judge_native"
    /\ calls' = Append(Append(calls, Call("is_valid_text", native_text)),
                       Call("extract_text_ocr", <<>>))
    /\ pc' = "ocr_import"
    /\ UNCHANGED <<doc, result>>
    /\ UNCHANGED <<pdf_base64, pdf_bytes, passwords, force_ocr, ocr_env,
                   authenticated, pwd_idx, page_num, text_parts, native_text,
                   ocr_text>>
    /\ UNCHANGED outerVars

\* if is_valid_text(native_text): return native_text; else try OCR
JudgeNative ==
    /\ pc = "judge_native"
    /\ LET log == Append(calls, Call("is_valid_text", native_text)) IN
        IF is_valid_text(native_text, DefaultThreshold)
        THEN ExitTry(log, Text(native_text))
        ELSE /\ calls' = Append(log, Call("extract_text_ocr", <<>>))
             /\ pc' = "ocr_import"
             /\ UNCHANGED <<doc, result>>
    /\ UNCHANGED <<pdf_base64, pdf_bytes, passwords, force_ocr, ocr_env,
                   authenticated, pwd_idx, page_num, text_parts, native_text,
                   ocr_text>>
    /\ UNCHANGED outerVars

\* what the caller of extract_text_ocr does with a PDFExtractionError:
\* the forced call lets it propagate, the fallback returns native_text
OcrRaised(msg) ==
    IF force_ocr THEN Error("PDFExtractionError", msg) ELSE Text(native_text)

\* import pytesseract / PIL at the top of extract_text_ocr
OcrImport ==
    /\ pc = "ocr_import"
    /\ IF ocr_env = "missing"
       THEN /\ ExitTry(calls, OcrRaised(MsgOcrMissing))
            /\ UNCHANGED <<page_num, text_parts>>
       ELSE /\ pc' = "ocr_page"
            /\ page_num' = 0
            /\ text_parts' = <<>>
            /\ UNCHANGED <<doc, result, calls>>
    /\ UNCHANGED <<pdf_base64, pdf_bytes, passwords, force_ocr, ocr_env,
                   authenticated, pwd_idx, native_text, ocr_text>>
    /\ UNCHANGED outerVars

\* one iteration of the loop of extract_text_ocr: get_pixmap, tobytes /
\* Image.open, image_to_string inside its try
OcrPage ==
    /\ pc = "ocr_page"
    /\ page_num < doc.page_count
    /\ LET raster == Append(calls, Call("get_pixmap", page_num))
           image == Append(raster, Call("Image.open", page_num))
           recog == Append(image, Call("image_to_string", page_num))
       IN \E outcome \in OcrOutcomes(ocr_env) :
            \/ /\ outcome = "raster_error"
               /\ \E e \in FitzErrors : ExitTry(raster, Error("RuntimeError", e))
               /\ UNCHANGED <<text_parts, page_num>>
            \/ /\ outcome = "image_error"
               /\ \E e \in FitzErrors : ExitTry(image, Error("RuntimeError", e))
               /\ UNCHANGED <<text_parts, page_num>>
            \/ /\ outcome = "recognized"
               /\ \E t \in OcrTexts : text_parts' = Append(text_parts, t)
               /\ page_num' = page_num + 1
               /\ calls' = recog
               /\ UNCHANGED <<pc, doc, result>>
            \/ /\ outcome = "recognize_error"
               /\ \E e \in TesseractErrors :
                    text_parts' = Append(text_parts, Placeholder(e))
               /\ page_num' = page_num + 1
               /\ calls' = recog
               /\ UNCHANGED <<pc, doc, result>>
    /\ UNCHANGED <<pdf_base64, pdf_bytes, passwords, force_ocr, ocr_env,
                   authenticated, pwd_idx, native_text, ocr_text>>
    /\ UNCHANGED outerVars

\* the forced call gated by the judge like the fallback
OcrReturnAlwaysJudged ==
    /\ pc = "ocr_page"
    /\ page_num = doc.page_count
    /\ ocr_text' = Join(text_parts, NEWLINE)
    /\ pc' = "judge_ocr"
    /\ UNCHANGED <<doc, result, calls>>
    /\ UNCHANGED <<pdf_base64, pdf_bytes, passwords, force_ocr, ocr_env,
                   authenticated, pwd_idx, page_num, text_parts, native_text>>
    /\ UNCHANGED outerVars

\* return "\n".join(text_parts); the forced call returns it as is, the
\* fallback assigns it to ocr_text
OcrReturn ==
    /\ pc = "ocr_page"
    /\ page_num = doc.page_count
    /\ IF force_ocr
       THEN /\ ExitTry(calls, Text(Join(text_parts, NEWLINE)))
            /\ ocr_text' = ocr_text
       ELSE /\ ocr_text' = Join(text_parts, NEWLINE)
            /\ pc' = "judge_ocr"
            /\ UNCHANGED <<doc, result, calls>>
    /\ UNCHANGED <<pdf_base64, pdf_bytes, passwords, force_ocr, ocr_env,
                   authenticated, pwd_idx, page_num, text_parts, native_text>>
    /\ UNCHANGED outerVars

\* the two branches on the verdict of the OCR text exchanged
JudgeOcrInverted ==
    /\ pc = "judge_ocr"
    /\ LET log == Append(calls, Call("is_valid_text", ocr_text)) IN
        IF is_valid_text(ocr_text, DefaultThreshold)
        THEN ExitTry(log, Text(native_text))
        ELSE ExitTry(log, Text(ocr_text))
    /\ UNCHANGED <<pdf_base64, pdf_bytes, passwords, force_ocr, ocr_env,
                   authenticated, pwd_idx, page_num, text_parts, native_text,
                   ocr_text>>
    /\ UNCHANGED outerVars

\* the fallback returning the OCR text without asking the judge
JudgeOcrSkipped ==
    /\ pc = "judge_ocr"
    /\ ExitTry(calls, Text(ocr_text))
    /\ UNCHANGED <<pdf_base64, pdf_bytes, passwords, force_ocr, ocr_env,
                   authenticated, pwd_idx, page_num, text_parts, native_text,
                   ocr_text>>
    /\ UNCHANGED outerVars

\* if is_valid_text(ocr_text): return ocr_text; else return native_text
JudgeOcr ==
    /\ pc = "judge_ocr"
    /\ LET log == Append(calls, Call("is_valid_text", ocr_text)) IN
        IF is_valid_text(ocr_text, DefaultThreshold)
        THEN ExitTry(log, Text(ocr_text))
        ELSE ExitTry(log, Text(native_text))
    /\ UNCHANGED <<pdf_base64, pdf_bytes, passwords, force_ocr, ocr_env,
                   authenticated, pwd_idx, page_num, text_parts, native_text,
                   ocr_text>>
    /\ UNCHANGED outerVars

Next ==
    \/ Open
    \/ NeedsPass
    \/ Authenticate
    \/ AuthCheck
    \/ ForceCheck
    \/ NativePage
    \/ NativeReturn
    \/ JudgeNative
    \/ OcrImport
    \/ OcrPage
    \/ OcrReturn
    \/ JudgeOcr

Spec == Init /\ [][Next]_vars

(***************************************************************************)
(* extract_text_from_base64_pdf: decode, then the call above.              *)
(***************************************************************************)
B64PasswordArgs ==
    {[is_none |-> TRUE, list |-> <<>>],
     [is_none |-> FALSE, list |-> <<"x", "abc123">>]}

InitB64 ==
    /\ pc = "decode"
    /\ pdf_base64 \in B64Inputs
    /\ pdf_bytes = <<>>
    /\ passwords \in B64PasswordArgs
    /\ force_ocr \in BOOLEAN
    /\ ocr_env \in OcrEnvs
    /\ IdleLocals
    /\ IdleJudge
    /\ IdleOuter

\* pdf_bytes = decode_base64_pdf(pdf_base64)
Decode ==
    /\ pc = "decode"
    /\ LET r == decode_base64_pdf(pdf_base64) IN
        IF r.ok
        THEN /\ pdf_bytes' = r.value
             /\ pc' = "open"
             /\ result' = result
        ELSE /\ result' = Error("PDFExtractionError", r.value)
             /\ pc' = "done"
             /\ pdf_bytes' = pdf_bytes
    /\ UNCHANGED <<pdf_base64, passwords, force_ocr, ocr_env, doc,
                   authenticated, pwd_idx, page_num, text_parts, native_text,
                   ocr_text, calls>>
    /\ UNCHANGED outerVars

NextB64 ==
    \/ Decode
    \/ Next

SpecB64 == InitB64 /\ [][NextB64]_vars

(***************************************************************************)
(* The /pdf/toText handler of app/routers/pdf.py: it calls                 *)
(* extract_text_from_base64_pdf(request.pdf, request.passwords), force_ocr *)
(* left at its default, and turns the outcome into an HTTP answer.         *)
(***************************************************************************)
MsgProcessingFailed ==   \* "處理 PDF 時發生錯誤: "
    <<34389, 29702, 32, 80, 68, 70, 32, 26178, 30332, 29983, 37679, 35492,
      58, 32>>

\* the answer of pdf_to_text for an outcome of the extraction
PdfToTextResponse(outcome) ==
    IF outcome.kind = "text"
    THEN [status |-> 200, text |-> outcome.value, detail |-> <<>>]
    ELSE IF outcome.cls = "PDFExtractionError"
    THEN [status |-> 400, text |-> <<>>, detail |-> outcome.value]
    ELSE [status |-> 500, text |-> <<>>,
          detail |-> MsgProcessingFailed \o outcome.value]

InitHttp ==
    /\ pc = "decode"
    /\ pdf_base64 \in B64Inputs
    /\ pdf_bytes = <<>>
    /\ passwords \in B64PasswordArgs
    /\ force_ocr = FALSE
    /\ ocr_env \in OcrEnvs
    /\ IdleLocals
    /\ IdleJudge
    /\ IdleOuter

\* return PDFToTextResponse(text=text) / raise HTTPException
Respond ==
    /\ pc = "done"
    /\ response' = PdfToTextResponse(result)
    /\ pc' = "responded"
    /\ UNCHANGED <<pdf_base64, pdf_bytes, passwords, force_ocr, ocr_env, doc,
                   authenticated, pwd_idx, page_num, text_parts, native_text,
                   ocr_text, result, calls, other, running>>
    /\ UNCHANGED judgeVars

NextHttp ==
    \/ Decode
    \/ Next
    \/ Respond

SpecHttp == InitHttp /\ [][NextHttp]_vars

(***************************************************************************)
(* Two calls of extract_text_from_pdf in two threads.  The variables above *)
(* are the locals of the call that is running, other holds the locals of   *)
(* the suspended one; Switch is a context switch between two steps.        *)
(***************************************************************************)
\* the locals of the running call, as a record
RunningCall ==
    [pc |-> pc, pdf_bytes |-> pdf_bytes, passwords |-> passwords,
     force_ocr |-> force_ocr, doc |-> doc, authenticated |-> authenticated,
     pwd_idx |-> pwd_idx, page_num |-> page_num, text_parts |-> text_parts,
     native_text |-> native_text, ocr_text |-> ocr_text, result |-> result,
     calls |-> calls]

\* a call about to enter extract_text_from_pdf
NewCall(pw, force) ==
    [NoCall EXCEPT !.pc = "open", !.pdf_bytes = SamplePdfBytes,
                   !.passwords = pw, !.force_ocr = force]

ConcPasswordArgs ==
    {[is_none |-> TRUE, list |-> <<>>],
     [is_none |-> FALSE, list |-> <<"x", "abc123">>]}

InitConc ==
    /\ running = "A"
    /\ \E pw \in ConcPasswordArgs, force \in BOOLEAN :
        /\ pc = "open"
        /\ pdf_bytes = SamplePdfBytes
        /\ passwords = pw
        /\ force_ocr = force
        /\ other = NewCall(pw, ~force)
    /\ pdf_base64 = <<>>
    /\ ocr_env \in OcrEnvs
    /\ IdleLocals
    /\ IdleJudge
    /\ response = NoResponse

\* the scheduler suspends the running call and resumes the other one
Switch ==
    /\ other.pc \notin {"none", "done"}
    /\ running' = IF running = "A" THEN "B" ELSE "A"
    /\ other' = RunningCall
    /\ pc' = other.pc
    /\ pdf_bytes' = other.pdf_bytes
    /\ passwords' = other.passwords
    /\ force_ocr' = other.force_ocr
    /\ doc' = other.doc
    /\ authenticated' = other.authenticated
    /\ pwd_idx' = other.pwd_idx
    /\ page_num' = other.page_num
    /\ text_parts' = other.text_parts
    /\ native_text' = other.native_text
    /\ ocr_text' = other.ocr_text
    /\ result' = other.result
    /\ calls' = other.calls
    /\ UNCHANGED <<pdf_base64, ocr_env, response>>
    /\ UNCHANGED judgeVars

NextConc ==
    \/ Next
    \/ Switch

SpecConc == InitConc /\ [][NextConc]_vars

(***************************************************************************)
(* A direct call of the judge on an arbitrary text.                        *)
(***************************************************************************)
\* space, newline, tab, vertical tab, "a", "中", "§"
JudgeChars == {32, 10, 9, 11, 97, 20013, 167}
Thresholds == {<<3, 10>>, <<6, 10>>}

InitJudge ==
    /\ pc = "is_valid_text"
    /\ text \in SeqsUpTo(JudgeChars, MaxTextLen)
    /\ threshold \in Thresholds
    /\ verdict = FALSE
    /\ pdf_base64 = <<>>
    /\ pdf_bytes = <<>>
    /\ passwords = [is_none |-> TRUE, list |-> <<>>]
    /\ force_ocr = FALSE
    /\ ocr_env = "ok"
    /\ IdleLocals
    /\ IdleOuter

IsValidTextCall ==
    /\ pc = "is_valid_text"
    /\ verdict' = is_valid_text(text, threshold)
    /\ pc' = "done"
    /\ UNCHANGED <<text, threshold>>
    /\ UNCHANGED <<pdf_base64, pdf_bytes, passwords, force_ocr, ocr_env, doc,
                   authenticated, pwd_idx, page_num, text_parts, native_text,
                   ocr_text, result, calls, response, other, running>>

NextJudge == IsValidTextCall

SpecJudge == InitJudge /\ [][NextJudge]_vars

(***************************************************************************)
(* Properties.                                                             *)
(***************************************************************************)
CountCalls(op) == Cardinality({i \in DOMAIN calls : calls[i].op = op})

\* the arguments of the authenticate calls made so far, in call order
RECURSIVE AuthArgsOf(_)
AuthArgsOf(log) ==
    IF log = <<>> THEN <<>>
    ELSE IF Head(log).op = "authenticate"
         THEN <<Head(log).arg>> \o AuthArgsOf(Tail(log))
         ELSE AuthArgsOf(Tail(log))

AuthArgs == AuthArgsOf(calls)

\* the call is past the password loop
PastAuthentication == pc \notin {"decode", "open", "needs_pass", "auth_loop"}

\* C1: when fitz.open succeeded, the document is closed exactly once by the
\* time the call returns or raises, whatever the exit path, and never before;
\* when fitz.open failed, close is never called.
C1_ClosedExactlyOnce ==
    /\ CountCalls("close") <= 1
    /\ (pc = "done" /\ doc.opened) =>
            /\ CountCalls("close") = 1
            /\ calls[Len(calls)].op = "close"
            /\ doc.is_closed
    /\ (pc # "done") => CountCalls("close") = 0
    /\ ~doc.opened => CountCalls("close") = 0

\* an unexpected collaborator exception left the call with the handle closed
C1_Witness ==
    /\ pc = "done"
    /\ doc.opened
    /\ result.kind = "error"
    /\ result.cls = "RuntimeError"
    /\ CountCalls("close") = 1

\* C2: authenticate is called on the entries of the password list in list
\* order from the first one, never again after a call that succeeded; once the
\* loop is over the number of calls is the index of the first accepted entry,
\* or the length of the list when no entry is accepted.
C2_AuthenticateInOrderUntilSuccess ==
    /\ Len(AuthArgs) <= Len(passwords.list)
    /\ \A i \in 1..Len(AuthArgs) : AuthArgs[i] = passwords.list[i]
    /\ \A i \in 1..(Len(AuthArgs) - 1) : ~DocAuthenticate(AuthArgs[i])
    /\ (doc.opened /\ doc.needs_pass /\ PastAuthentication) =>
            IF \E i \in 1..Len(passwords.list) : DocAuthenticate(passwords.list[i])
            THEN /\ Len(AuthArgs) >= 1
                 /\ DocAuthenticate(passwords.list[Len(AuthArgs)])
                 /\ authenticated
            ELSE Len(AuthArgs) = Len(passwords.list)
    /\ ~(doc.opened /\ doc.needs_pass) => AuthArgs = <<>>

\* the loop stopped at an accepted entry that was not the first one tried,
\* or left later entries untried
C2_Witness ==
    /\ pc = "done"
    /\ doc.needs_pass
    /\ authenticated
    /\ \/ Len(AuthArgs) >= 2
       \/ Len(AuthArgs) < Len(passwords.list)

PasswordIndicator == <<23494, 30908>>       \* "密碼"

\* C3: a protected document with an empty list or only rejected passwords
\* always ends in the authentication error, whose message contains "密碼";
\* no text is returned and no page is read.
C3_RejectedPasswordsFail ==
    (/\ pc = "done"
     /\ doc.opened
     /\ doc.needs_pass
     /\ \A i \in 1..Len(passwords.list) : ~DocAuthenticate(passwords.list[i]))
    => /\ result = Error("PDFExtractionError", MsgAuthFailed)
       /\ Contains(result.value, PasswordIndicator)
       /\ CountCalls("get_text") = 0
       /\ CountCalls("get_pixmap") = 0

\* a protected document met a non-empty list of wrong passwords
C3_Witness ==
    /\ pc = "done"
    /\ doc.needs_pass
    /\ passwords.list # <<>>
    /\ Len(AuthArgs) = Len(passwords.list)
    /\ ~authenticated
    /\ result.kind = "error"

\* standard base64 text: alphabet characters in groups of four, the last
\* group possibly ending in one or two "="
ValidB64(s) ==
    /\ Len(s) % 4 = 0
    /\ \A i \in 1..Len(s) :
        \/ B64Value(s[i]) < 64
        \/ /\ s[i] = BASE64_PAD
           /\ i >= Len(s) - 1
           /\ i = Len(s) - 1 => s[Len(s)] = BASE64_PAD

IsDecodeError(r) ==
    /\ r.kind = "error"
    /\ r.cls = "PDFExtractionError"
    /\ Len(r.value) >= Len(MsgBase64Failed)
    /\ SubSeq(r.value, 1, Len(MsgBase64Failed)) = MsgBase64Failed

\* C4: an encoded input that is not valid standard base64 (a character
\* outside the alphabet, bad padding or length) makes the call fail with the
\* decode error, and fitz.open is never called for it.
C4_InvalidBase64FailsBeforeOpen ==
    ~ValidB64(pdf_base64) =>
        /\ CountCalls("open") = 0
        /\ pc \in {"decode", "done"}
        /\ pc = "done" => IsDecodeError(result)

\* C5: with force_ocr set and authentication passed or not needed, OCR
\* extraction is invoked, native extraction and the judge never are, and a
\* text the OCR extraction produced is returned as it is.
C5_ForcedOcrBypassesJudge ==
    force_ocr =>
        /\ CountCalls("extract_text_native") = 0
        /\ CountCalls("get_text") = 0
        /\ CountCalls("is_valid_text") = 0
        /\ (pc = "done" /\ doc.opened /\ (doc.needs_pass => authenticated)) =>
                /\ CountCalls("extract_text_ocr") = 1
                /\ result.kind = "text" =>
                        /\ page_num = doc.page_count
                        /\ result.value = Join(text_parts, NEWLINE)
                /\ (ocr_env # "missing" /\ CountCalls("get_pixmap") = CountCalls("image_to_string"))
                        => result.kind = "text"

\* a forced call returned an OCR text the judge would have rejected
C5_Witness ==
    /\ pc = "done"
    /\ force_ocr
    /\ result.kind = "text"
    /\ doc.page_count >= 1
    /\ ~is_valid_text(result.value, DefaultThreshold)

\* the OCR collaborator cannot be used: not importable, or importable but
\* its engine fails on every page
OcrUnavailable == ocr_env \in {"missing", "misconfigured"}

\* C6: when the OCR collaborator is unavailable, a call without force_ocr
\* whose native text was judged garbled returns the native text and does not
\* raise, and a call with force_ocr raises the OCR-unavailable error.
\* (Calls whose rasterization raised are left aside.)
C6_OcrUnavailableHandled ==
    (/\ pc = "done"
     /\ OcrUnavailable
     /\ CountCalls("extract_text_ocr") = 1
     /\ doc.page_count >= 1
     /\ result.cls # "RuntimeError")
    => IF force_ocr
       THEN result = Error("PDFExtractionError", MsgOcrMissing)
       ELSE result = Text(native_text)

\* C7: in the OCR extraction of an n-page document, a page whose
\* rasterization or recognition fails does not end the extraction: once the
\* page loop was entered the call ends with a text of exactly n page parts.
C7_PageFailureDoesNotAbort ==
    (pc = "done" /\ CountCalls("get_pixmap") >= 1)
    => /\ result.kind = "text"
       /\ Len(text_parts) = doc.page_count
       /\ CountCalls("get_pixmap") = doc.page_count

\* C10 as stated: every returned text was passed to the judge before.
C10_ReturnedTextWasJudged ==
    (pc = "done" /\ result.kind = "text")
    => \E i \in DOMAIN calls :
            /\ calls[i].op = "is_valid_text"
            /\ calls[i].arg = result.value

\* C10 amended: without force_ocr every returned text was passed to the
\* judge before being returned; with force_ocr the returned OCR text was not.
C10_ReturnedTextWasJudgedUnlessForced ==
    (pc = "done" /\ result.kind = "text")
    => IF force_ocr
       THEN CountCalls("is_valid_text") = 0
       ELSE \E i \in DOMAIN calls :
                /\ calls[i].op = "is_valid_text"
                /\ calls[i].arg = result.value

\* the fallback returned an OCR text, different from the native one, that
\* the judge had accepted
C10_Witness ==
    /\ pc = "done"
    /\ ~force_ocr
    /\ result = Text(ocr_text)
    /\ ocr_text # native_text
    /\ CountCalls("is_valid_text") = 2

AllWhitespace(t) == \A i \in 1..Len(t) : IsSpace(t[i])

\* C8: the judge classifies every non-empty text made only of whitespace
\* characters as readable.
C8_WhitespaceOnlyIsReadable ==
    (pc = "done" /\ text # <<>> /\ AllWhitespace(text)) => verdict = TRUE

\* the text with every whitespace character removed
RECURSIVE StripAllWhitespace(_)
StripAllWhitespace(t) ==
    IF t = <<>> THEN <<>>
    ELSE IF IsSpace(Head(t)) THEN StripAllWhitespace(Tail(t))
         ELSE <<Head(t)>> \o StripAllWhitespace(Tail(t))

\* C9: for a text with at least one non-whitespace character the verdict is
\* readable iff readable_count / stripped_length >= threshold, both taken
\* over the text with all whitespace removed.
C9_RatioOverStrippedText ==
    (pc = "done" /\ ~AllWhitespace(text))
    => LET stripped == StripAllWhitespace(text)
       IN verdict = (CountReadable(stripped) * threshold[2]
                        >= threshold[1] * Len(stripped))

\* some extraction was started
ExtractionStarted ==
    CountCalls("extract_text_native") + CountCalls("extract_text_ocr") >= 1

\* C11: a document that needs no password never gets an authenticate call
\* and never fails authentication, whatever the password list; the call goes
\* on to extraction.
C11_NoPasswordNeededSkipsAuthentication ==
    (doc.opened /\ ~doc.needs_pass) =>
        /\ CountCalls("authenticate") = 0
        /\ pc \notin {"auth_loop", "auth_check"}
        /\ result # Error("PDFExtractionError", MsgAuthFailed)
        /\ pc = "done" => ExtractionStarted

\* an unprotected document was extracted although only a wrong password
\* was supplied
C11_Witness ==
    /\ pc = "done"
    /\ doc.opened
    /\ ~doc.needs_pass
    /\ passwords.list # <<>>
    /\ ~DocAuthenticate(passwords.list[1])
    /\ result.kind = "text"

\* C12: for a protected document whose password list holds an accepted
\* password at any position, authentication succeeds and the call goes on to
\* extraction instead of failing with the authentication error.
C12_AcceptedPasswordAnywhereSucceeds ==
    (/\ pc = "done"
     /\ doc.opened
     /\ doc.needs_pass
     /\ \E i \in 1..Len(passwords.list) : DocAuthenticate(passwords.list[i]))
    => /\ result # Error("PDFExtractionError", MsgAuthFailed)
       /\ ExtractionStarted
       /\ \E i \in 1..Len(AuthArgs) : DocAuthenticate(AuthArgs[i])

\* the accepted password came after a rejected one
C12_Witness ==
    /\ pc = "done"
    /\ doc.needs_pass
    /\ Len(passwords.list) >= 2
    /\ ~DocAuthenticate(passwords.list[1])
    /\ DocAuthenticate(passwords.list[Len(passwords.list)])
    /\ result.kind = "text"

\* the page indices of the get_text calls made so far, in call order
RECURSIVE GetTextArgsOf(_)
GetTextArgsOf(log) ==
    IF log = <<>> THEN <<>>
    ELSE IF Head(log).op = "get_text"
         THEN <<Head(log).arg>> \o GetTextArgsOf(Tail(log))
         ELSE GetTextArgsOf(Tail(log))

\* parts[k], then a newline and each later part: p1 \n p2 \n p3 ...
RECURSIVE NewlineBefore(_, _)
NewlineBefore(parts, k) ==
    IF k > Len(parts) THEN <<>>
    ELSE <<10>> \o parts[k] \o NewlineBefore(parts, k + 1)

\* C13: native extraction reads every page exactly once in increasing index
\* order and returns the page texts joined by single newlines, page 1 first,
\* with no leading or trailing separator.
C13_NativePagesInOrderJoinedByNewline ==
    /\ \A i \in 1..Len(GetTextArgsOf(calls)) : GetTextArgsOf(calls)[i] = i - 1
    /\ Len(GetTextArgsOf(calls)) <= doc.page_count
    /\ pc = "judge_native" =>
        /\ Len(GetTextArgsOf(calls)) = doc.page_count
        /\ Len(text_parts) = doc.page_count
        /\ doc.page_count = 0 => native_text = <<>>
        /\ doc.page_count = 1 => native_text = text_parts[1]
        /\ doc.page_count = 2 =>
                native_text = text_parts[1] \o <<10>> \o text_parts[2]
        /\ doc.page_count = 3 =>
                native_text = text_parts[1] \o <<10>> \o text_parts[2]
                                \o <<10>> \o text_parts[3]
        /\ doc.page_count >= 1 =>
                native_text = text_parts[1] \o NewlineBefore(text_parts, 2)

\* a document of several pages with different texts was extracted natively
C13_Witness ==
    /\ pc = "judge_native"
    /\ doc.page_count >= 2
    /\ text_parts[1] # text_parts[2]
    /\ Len(native_text) >= 3

\* the judge was asked about the native text
NativeJudged ==
    /\ CountCalls("is_valid_text") >= 1
    /\ pc \in {"ocr_import", "ocr_page", "judge_ocr", "done"}

\* calls of the OCR collaborator (rasterize / recognize)
OcrCollaboratorCalls ==
    CountCalls("get_pixmap") + CountCalls("Image.open")
        + CountCalls("image_to_string")

\* C16: without force_ocr a native text judged readable is returned and the
\* OCR collaborator is never invoked; OCR extraction is invoked at most once
\* per call, and only with force_ocr or after the native text was judged not
\* readable.
C16_ReadableNativeSkipsOcr ==
    /\ CountCalls("extract_text_ocr") <= 1
    /\ CountCalls("extract_text_ocr") = 1 =>
        \/ force_ocr
        \/ /\ NativeJudged
           /\ ~is_valid_text(native_text, DefaultThreshold)
    /\ (~force_ocr /\ NativeJudged /\ is_valid_text(native_text, DefaultThreshold)) =>
        /\ pc = "done"
        /\ result = Text(native_text)
        /\ CountCalls("extract_text_ocr") = 0
        /\ OcrCollaboratorCalls = 0
    /\ OcrCollaboratorCalls >= 1 => CountCalls("extract_text_ocr") = 1

\* a readable native text came back without any OCR
C16_Witness ==
    /\ pc = "done"
    /\ ~force_ocr
    /\ doc.page_count >= 1
    /\ result = Text(native_text)
    /\ is_valid_text(native_text, DefaultThreshold)
    /\ CountCalls("extract_text_ocr") = 0

\* C17: without force_ocr and with the native text judged not readable, a
\* completed OCR extraction makes the call return the OCR text iff the judge
\* classifies the OCR text as readable, and the native text otherwise.
C17_FallbackReturnsJudgedOcrOrNative ==
    (/\ pc = "done"
     /\ ~force_ocr
     /\ CountCalls("is_valid_text") = 2)
    => /\ ~is_valid_text(native_text, DefaultThreshold)
       /\ result.kind = "text"
       /\ result.value \in {ocr_text, native_text}
       /\ is_valid_text(ocr_text, DefaultThreshold) => result.value = ocr_text
       /\ ~is_valid_text(ocr_text, DefaultThreshold) => result.value = native_text

\* an OCR text the judge rejected was dropped for the native text
C17_Witness ==
    /\ pc = "done"
    /\ ~force_ocr
    /\ CountCalls("is_valid_text") = 2
    /\ ocr_text # native_text
    /\ ~is_valid_text(ocr_text, DefaultThreshold)
    /\ result = Text(native_text)

\* the decode step failed: no collaborator was ever called
DecodeFailed == pc = "done" /\ calls = <<>> /\ IsDecodeError(result)

\* C18: no page is read or rasterized in a call whose decoding failed, whose
\* open failed, or whose document needs a password while no authenticate
\* call has returned true; such a call ends in an error.
C18_NoPageAccessBeforeAuthentication ==
    (\/ DecodeFailed
     \/ ~doc.opened
     \/ /\ doc.needs_pass
        /\ \A i \in 1..Len(AuthArgs) : ~DocAuthenticate(AuthArgs[i]))
    => /\ CountCalls("get_text") = 0
       /\ OcrCollaboratorCalls = 0
       /\ ~ExtractionStarted
       /\ pc = "done" => result.kind = "error"

\* a protected document was refused for want of a password, after an input
\* that decoded and opened
C18_Witness ==
    /\ pc = "done"
    /\ pdf_base64 # <<>>
    /\ doc.opened
    /\ doc.needs_pass
    /\ ~authenticated
    /\ result = Error("PDFExtractionError", MsgAuthFailed)

\* C19: without force_ocr, once native extraction has completed no failure
\* of the OCR fallback makes the call fail: it returns a text, the native
\* text whenever the OCR extraction raised.
C19_FallbackFailureReturnsNative ==
    (pc = "done" /\ ~force_ocr /\ CountCalls("is_valid_text") >= 1)
    => /\ result.kind = "text"
       /\ (CountCalls("extract_text_ocr") = 1 /\ CountCalls("is_valid_text") = 1)
            => result = Text(native_text)

\* every part of the OCR text is a failure placeholder
AllPlaceholders(parts) ==
    /\ parts # <<>>
    /\ \A i \in 1..Len(parts) : \E err \in TesseractErrors : parts[i] = Placeholder(err)

\* C20: without force_ocr, when recognition failed on every page the call
\* returns the native text, never the joined placeholders.
C20_PlaceholdersNeverReturned ==
    (/\ pc = "done"
     /\ ~force_ocr
     /\ CountCalls("is_valid_text") = 2
     /\ AllPlaceholders(text_parts))
    => result = Text(native_text)

\* C14: /pdf/toText answers with a 400-class status on every failure of the
\* pipeline and with 200 and the text exactly when the pipeline returns one.
C14_FailuresAnswered400 ==
    pc = "responded" =>
        /\ result.kind = "error" => response.status \in 400..499
        /\ result.kind = "text" <=> response.status = 200
        /\ result.kind = "text" => response.text = result.value

\* the number of calls of one collaborator in the log of a call
CountIn(log, op) == Cardinality({i \in DOMAIN log : log[i].op = op})

\* a call opened at most one document, from its own bytes, and its handle is
\* closed exactly when the call itself closed it
OwnHandle(c) ==
    /\ CountIn(c.calls, "open") <= 1
    /\ CountIn(c.calls, "close") <= 1
    /\ \A i \in DOMAIN c.calls :
        c.calls[i].op = "open" => c.calls[i].arg = c.pdf_bytes
    /\ c.doc.opened => CountIn(c.calls, "open") = 1
    /\ c.doc.is_closed <=> CountIn(c.calls, "close") = 1
    /\ c.doc.is_closed => c.doc.opened /\ c.pc = "done"
    /\ c.pc = "done" /\ c.doc.opened => c.doc.is_closed

\* the outcome of a finished call is the one its own arguments and the
\* answers its own collaborators gave determine when the call runs alone
SoloOutcome(c) ==
    LET accepted == \E i \in DOMAIN c.passwords.list :
                        DocAuthenticate(c.passwords.list[i])
        rasterFailed == CountIn(c.calls, "get_pixmap")
                            > CountIn(c.calls, "image_to_string")
        ocrJoined == Join(c.text_parts, NEWLINE)
        runtimeError == /\ c.result.kind = "error"
                        /\ c.result.cls = "RuntimeError"
                        /\ c.result.value \in FitzErrors
    IN  IF ~c.doc.opened
        THEN /\ c.result.kind = "error"
             /\ c.result.cls = "PDFExtractionError"
             /\ \E e \in FitzErrors : c.result.value = MsgCannotOpen \o e
        ELSE IF c.doc.needs_pass /\ ~accepted
        THEN c.result = Error("PDFExtractionError", MsgAuthFailed)
        ELSE IF c.force_ocr
        THEN IF ocr_env = "missing"
             THEN c.result = Error("PDFExtractionError", MsgOcrMissing)
             ELSE IF rasterFailed THEN runtimeError
             ELSE c.result = Text(ocrJoined)
        ELSE IF CountIn(c.calls, "is_valid_text") = 0
        THEN runtimeError
        ELSE IF is_valid_text(c.native_text, DefaultThreshold)
        THEN c.result = Text(c.native_text)
        ELSE IF ocr_env = "missing"
        THEN c.result = Text(c.native_text)
        ELSE IF rasterFailed THEN runtimeError
        ELSE /\ c.ocr_text = ocrJoined
             /\ c.result = IF is_valid_text(c.ocr_text, DefaultThreshold)
                           THEN Text(c.ocr_text) ELSE Text(c.native_text)

CallsAreIndependent ==
    \A c \in {RunningCall, other} :
        /\ OwnHandle(c)
        /\ c.pc = "done" => SoloOutcome(c)

\* a step belongs to the running call and leaves the suspended one as it
\* was, or it is a context switch and changes neither
OneCallPerStep ==
    \/ other' = other
    \/ other' = RunningCall /\ RunningCall' = other

\* C15: for two calls of extract_text_from_pdf whose steps interleave in any
\* order, each call opens and closes only its own document, no step of one
\* call changes a local of the other, and the outcome of each finished call
\* is the one its own arguments and collaborator answers give when it runs
\* alone.
C15_InterleavedCallsAreIndependent ==
    [](CallsAreIndependent) /\ [][OneCallPerStep]_vars

\* one call has finished with a text and a closed document while the other
\* one, suspended after reading a page, still holds its own open document
C15_Witness ==
    /\ pc = "done"
    /\ result.kind = "text"
    /\ doc.is_closed
    /\ other.pc = "native_page"
    /\ other.page_num > 0
    /\ other.doc.opened
    /\ ~other.doc.is_closed

=============================================================================
